---------------------------- MODULE Spec2Model ----------------------------
(***************************************************************************)
(* Essent Dynamic: the coordinator's fetch-parse cycle                     *)
(* (coordinator.py, EssentDynamicCoordinator._async_update_data) and the   *)
(* sensors' queries over the coordinator's data (sensor.py).               *)
(*                                                                         *)
(* Time.  A datetime is [t, aware, off]: t is the local wall-clock hour    *)
(* counted from the first modelled day, aware says whether it carries a    *)
(* zone offset, off is that offset in hours (0 when naive).  An ISO        *)
(* datetime string is the sequence <<t>> (no offset) or <<t, off>>; an ISO *)
(* date string is <<d>>.  Any other sequence does not parse.               *)
(*                                                                         *)
(* JSON.  A decoded value is [type, val] with type one of "null", "num",   *)
(* "str", "list", "dict"; dict.get(k) of an absent key is None, that is    *)
(* JNull.                                                                  *)
(***************************************************************************)
EXTENDS Integers, Sequences, FiniteSets, TLC

VARIABLES
    response,  \* what the GET of the last refresh gave (a decoded body, or a failure)
    refresh_day, \* today: dt_util.now().date() at the last refresh
    data,      \* coordinator.data: None or the EssentDayData of a refresh
    last,      \* what the last _async_update_data call did: its return or raise
    answer     \* what the last sensor read or query since the last refresh did

vars == <<response, refresh_day, data, last, answer>>

---------------------------------------------------------------------------
(* Bounds of the model *)

MaxTime == 2       \* local hours 0..MaxTime
HoursPerDay == 2   \* hours in one calendar day of the model
MaxOff == 3        \* zone offsets are 0 and MaxOff hours
MaxDay == 1        \* calendar days 0..MaxDay ("today" and the date strings)
MaxAmount == 1     \* amounts 0..MaxAmount
MaxTariffs == 2    \* length of a payload's tariffs list
MaxPrices == 2     \* length of a payload's prices list

Times == 0..MaxTime          \* the hours tariffs start at and moments fall on
Clock == 0..(MaxTime + 1)    \* the hours a datetime string can name
Offsets == {0, MaxOff}
Days == 0..MaxDay
Amounts == 0..MaxAmount

---------------------------------------------------------------------------
(* datetime *)

Naive(t) == [t |-> t, aware |-> FALSE, off |-> 0]
Aware(t, o) == [t |-> t, aware |-> TRUE, off |-> o]
DateTimes == {Naive(t) : t \in Times} \cup {Aware(t, o) : t \in Times, o \in Offsets}

\* The instant two datetimes are ordered by: local time for naive ones, UTC for
\* aware ones.
Instant(dt) == IF dt.aware THEN dt.t - dt.off ELSE dt.t

\* a < b, a <= b, a > b raise TypeError when exactly one of them is aware.
Comparable(a, b) == a.aware = b.aware
Before(a, b) == Instant(a) < Instant(b)
NotAfter(a, b) == Instant(a) <= Instant(b)

\* datetime.date(): the local calendar date, whatever the offset.
DateOf(dt) == dt.t \div HoursPerDay

\* datetime.fromisoformat: does the string parse, and to what.
DateTimeParses(s) ==
    \/ Len(s) = 1 /\ s[1] \in Clock
    \/ Len(s) = 2 /\ s[1] \in Clock /\ s[2] \in Offsets
DateTimeFromIso(s) == IF Len(s) = 1 THEN Naive(s[1]) ELSE Aware(s[1], s[2])
DateTimeIso(dt) == IF dt.aware THEN <<dt.t, dt.off>> ELSE <<dt.t>>

\* date.isoformat and date.fromisoformat.
DateIso(d) == <<d>>
DateParses(s) == Len(s) = 1 /\ s[1] \in Days
DateFromIso(s) == s[1]

---------------------------------------------------------------------------
(* decoded JSON *)

JNull == [type |-> "null", val |-> 0]
JNum(n) == [type |-> "num", val |-> n]
JStr(s) == [type |-> "str", val |-> s]
JList(l) == [type |-> "list", val |-> l]
JDict(d) == [type |-> "dict", val |-> d]

IsDict(v) == v.type = "dict"
IsList(v) == v.type = "list"
IsStr(v) == v.type = "str"
IsNum(v) == v.type = "num"
IsNone(v) == v.type = "null"
Get(v, k) == IF k \in DOMAIN v.val THEN v.val[k] ELSE JNull

\* A string that is neither an ISO date nor an ISO datetime.
BadStr == <<>>


---------------------------------------------------------------------------
(* coordinator.py: the values *)

ParsedTariff(start, end, total, market, fee, tax) ==
    [start |-> start, end |-> end, total |-> total,
     market |-> market, fee |-> fee, tax |-> tax]

None == [kind |-> "none"]
EssentDayData(day, vat, unit, tariffs) ==
    [kind |-> "data", day |-> day, vat_percentage |-> vat,
     unit_of_measurement |-> unit, tariffs |-> tariffs]

\* What a call of _async_update_data did: it returned value, or it raised.
Returned(value, c) == [kind |-> "return", value |-> value, chosen |-> c]
Raised(c) == [kind |-> "raise", value |-> None, chosen |-> c]

---------------------------------------------------------------------------
(* coordinator.py: _async_update_data *)

\* by_type.get(label): the amount of the last group object of that type.
RECURSIVE ByType(_, _)
ByType(groups, label) ==
    IF groups = <<>> THEN JNull
    ELSE LET g == groups[Len(groups)] IN
         IF IsDict(g) /\ IsStr(Get(g, "type")) /\ Get(g, "type").val = label
         THEN Get(g, "amount")
         ELSE ByType(SubSeq(groups, 1, Len(groups) - 1), label)

\* market, fee, tax: the group's amount when it is a number, else None.
GroupAmount(t, label) ==
    LET groups == Get(t, "groups") IN
    IF IsList(groups) /\ IsNum(ByType(groups.val, label))
    THEN ByType(groups.val, label)
    ELSE JNull

\* TariffOf with the two timestamps taken from each other's field.
TariffOfSwapped(t) ==
    IF ~IsDict(t) THEN <<>>
    ELSE LET start_str == Get(t, "endDateTime")
             end_str == Get(t, "startDateTime")
             total == Get(t, "totalAmount")
         IN IF ~IsStr(start_str) \/ ~IsStr(end_str) \/ IsNone(total) THEN <<>>
            ELSE IF ~DateTimeParses(start_str.val) \/ ~DateTimeParses(end_str.val)
            THEN <<>>
            ELSE IF ~IsNum(total) THEN <<>>
            ELSE << ParsedTariff(DateTimeFromIso(start_str.val),
                                 DateTimeFromIso(end_str.val),
                                 total.val,
                                 GroupAmount(t, "MARKET_PRICE"),
                                 GroupAmount(t, "PURCHASING_FEE"),
                                 GroupAmount(t, "TAX")) >>

\* One pass of the loop over tariffs_raw: the tariffs it appends (one or none).
TariffOf(t) ==
    IF ~IsDict(t) THEN <<>>
    ELSE LET start_str == Get(t, "startDateTime")
             end_str == Get(t, "endDateTime")
             total == Get(t, "totalAmount")
         IN IF ~IsStr(start_str) \/ ~IsStr(end_str) \/ IsNone(total) THEN <<>>
            ELSE IF ~DateTimeParses(start_str.val) \/ ~DateTimeParses(end_str.val)
            THEN <<>>
            ELSE IF ~IsNum(total) THEN <<>>
            ELSE << ParsedTariff(DateTimeFromIso(start_str.val),
                                 DateTimeFromIso(end_str.val),
                                 total.val,
                                 GroupAmount(t, "MARKET_PRICE"),
                                 GroupAmount(t, "PURCHASING_FEE"),
                                 GroupAmount(t, "TAX")) >>

RECURSIVE ParseTariffs(_)
ParseTariffs(tariffs_raw) ==
    IF tariffs_raw = <<>> THEN <<>>
    ELSE TariffOf(Head(tariffs_raw)) \o ParseTariffs(Tail(tariffs_raw))

\* list.sort(key=start) and sorted(key=start): stable, ascending.  Sorting two or
\* more tariffs compares starts of every awareness present, so it raises
\* TypeError when some start is naive and another aware.
SortRaises(tariffs) ==
    \E i, j \in 1..Len(tariffs) : ~Comparable(tariffs[i].start, tariffs[j].start)

RECURSIVE InsertByStart(_, _)
InsertByStart(sorted, x) ==
    IF sorted = <<>> THEN <<x>>
    ELSE LET y == sorted[Len(sorted)] IN
         IF Before(x.start, y.start)
         THEN Append(InsertByStart(SubSeq(sorted, 1, Len(sorted) - 1), x), y)
         ELSE Append(sorted, x)

\* SortByStart without the sort: the tariffs in the body's order.
SortByStartUnsorted(tariffs) == tariffs

RECURSIVE SortByStart(_)
SortByStart(tariffs) ==
    IF tariffs = <<>> THEN <<>>
    ELSE InsertByStart(SortByStart(SubSeq(tariffs, 1, Len(tariffs) - 1)),
                       tariffs[Len(tariffs)])

\* The loop over prices: the index of the first object whose date equals
\* today.isoformat(), 0 when there is none.
RECURSIVE TodayEntry(_, _, _)
TodayEntry(prices, today, i) ==
    IF i > Len(prices) THEN 0
    ELSE IF /\ IsDict(prices[i])
            /\ IsStr(Get(prices[i], "date"))
            /\ Get(prices[i], "date").val = DateIso(today)
         THEN i
    ELSE TodayEntry(prices, today, i + 1)

\* Chosen falling back to the first entry that is an object, not to prices[0].
ChosenFirstObject(prices, today) ==
    IF TodayEntry(prices, today, 1) # 0 THEN TodayEntry(prices, today, 1)
    ELSE IF \E i \in 1..Len(prices) : IsDict(prices[i])
    THEN CHOOSE i \in 1..Len(prices) :
            IsDict(prices[i]) /\ \A k \in 1..(i - 1) : ~IsDict(prices[k])
    ELSE 0

\* chosen: today's entry, else prices[0] when it is an object, else none (0).
Chosen(prices, today) ==
    IF TodayEntry(prices, today, 1) # 0 THEN TodayEntry(prices, today, 1)
    ELSE IF IsDict(prices[1]) THEN 1
    ELSE 0

\* day: the chosen entry's date when it is a string that parses, else today.
DayOfEntry(entry, today) ==
    LET day_str == Get(entry, "date") IN
    IF IsStr(day_str) /\ DateParses(day_str.val) THEN DateFromIso(day_str.val)
    ELSE today

\* From the chosen entry on (lines 87-168).
ParseChosen(entry, today, c) ==
    LET electricity == Get(entry, "electricity") IN
    IF ~IsDict(electricity) THEN Returned(None, c)
    ELSE LET unit == Get(electricity, "unitOfMeasurement")
             vat == Get(electricity, "vatPercentage")
             tariffs_raw == Get(electricity, "tariffs")
         IN IF ~IsList(tariffs_raw) \/ tariffs_raw.val = <<>> THEN Returned(None, c)
            ELSE LET parsed_tariffs == ParseTariffs(tariffs_raw.val) IN
                 IF parsed_tariffs = <<>> THEN Returned(None, c)
                 ELSE IF SortRaises(parsed_tariffs) THEN Raised(c)
                 ELSE Returned(
                        EssentDayData(DayOfEntry(entry, today),
                                      IF IsNum(vat) THEN vat ELSE JNull,
                                      IF IsStr(unit) THEN unit ELSE JNull,
                                      SortByStart(parsed_tariffs)), c)

\* A response is what the GET gave: [ok |-> FALSE] when the request, the status
\* or the JSON decoding raised, else [ok |-> TRUE, payload |-> the decoded body].
FetchFailed == [ok |-> FALSE, payload |-> JNull]
Fetched(payload) == [ok |-> TRUE, payload |-> payload]

_async_update_data(resp, today) ==
    IF ~resp.ok THEN Returned(None, 0)
    ELSE LET prices == IF IsDict(resp.payload) THEN Get(resp.payload, "prices")
                       ELSE JNull
         IN IF ~IsList(prices) \/ prices.val = <<>> THEN Returned(None, 0)
            ELSE IF Chosen(prices.val, today) = 0 THEN Returned(None, 0)
            ELSE ParseChosen(prices.val[Chosen(prices.val, today)], today,
                             Chosen(prices.val, today))


---------------------------------------------------------------------------
(* sensor.py: the queries *)

\* What a query did: it returned a tariff (by the return statement numbered
\* step), it returned None, or it raised.
Found(tariff, step) == [kind |-> "tariff", tariff |-> tariff, step |-> step]
NotFound == [kind |-> "none", tariff |-> None, step |-> 0]
QueryRaised == [kind |-> "raise", tariff |-> None, step |-> 0]

\* now_cmp: now with the awareness of the first tariff's start.
NowCmp(first, now) ==
    IF ~first.aware THEN Naive(now.t)
    ELSE IF now.aware THEN now ELSE Aware(now.t, first.off)

\* for tariff in tariffs: if tariff.start > now_cmp: return tariff
RECURSIVE FirstStartingAfter(_, _, _)
FirstStartingAfter(tariffs, now_cmp, i) ==
    IF i > Len(tariffs) THEN NotFound
    ELSE IF ~Comparable(tariffs[i].start, now_cmp) THEN QueryRaised
    ELSE IF Before(now_cmp, tariffs[i].start) THEN Found(tariffs[i], 1)
    ELSE FirstStartingAfter(tariffs, now_cmp, i + 1)

\* for tariff in tariffs: if tariff.start.date() > today: return tariff
RECURSIVE FirstOfLaterDate(_, _, _)
FirstOfLaterDate(tariffs, day, i) ==
    IF i > Len(tariffs) THEN NotFound
    ELSE IF DateOf(tariffs[i].start) > day THEN Found(tariffs[i], 2)
    ELSE FirstOfLaterDate(tariffs, day, i + 1)

\* FindNextSorted whose second step also takes a tariff of the moment's own date.
FindNextSortedSameDate(tariffs, now_cmp) ==
    IF FirstStartingAfter(tariffs, now_cmp, 1).kind # "none"
    THEN FirstStartingAfter(tariffs, now_cmp, 1)
    ELSE IF FirstOfLaterDate(tariffs, DateOf(now_cmp) - 1, 1).kind # "none"
    THEN FirstOfLaterDate(tariffs, DateOf(now_cmp) - 1, 1)
    ELSE Found(tariffs[Len(tariffs)], 3)

FindNextSorted(tariffs, now_cmp) ==
    IF FirstStartingAfter(tariffs, now_cmp, 1).kind # "none"
    THEN FirstStartingAfter(tariffs, now_cmp, 1)
    ELSE IF FirstOfLaterDate(tariffs, DateOf(now_cmp), 1).kind # "none"
    THEN FirstOfLaterDate(tariffs, DateOf(now_cmp), 1)
    ELSE Found(tariffs[Len(tariffs)], 3)

_find_next_tariff(d, now) ==
    IF d.tariffs = <<>> THEN NotFound
    ELSE IF SortRaises(d.tariffs) THEN QueryRaised
    ELSE FindNextSorted(SortByStart(d.tariffs),
                        NowCmp(SortByStart(d.tariffs)[1].start, now))

\* t.start <= moment < t.end: the chain stops at the first false comparison,
\* and a comparison of a naive with an aware datetime raises.
RECURSIVE ScanForMoment(_, _, _)
ScanForMoment(tariffs, moment, i) ==
    IF i > Len(tariffs) THEN NotFound
    ELSE IF ~Comparable(tariffs[i].start, moment) THEN QueryRaised
    ELSE IF ~NotAfter(tariffs[i].start, moment)
    THEN ScanForMoment(tariffs, moment, i + 1)
    ELSE IF ~Comparable(moment, tariffs[i].end) THEN QueryRaised
    ELSE IF Before(moment, tariffs[i].end) THEN Found(tariffs[i], 1)
    ELSE ScanForMoment(tariffs, moment, i + 1)

_find_tariff_for_moment(d, moment) == ScanForMoment(d.tariffs, moment, 1)

\* min(t.total for t in tariffs), max(...): of an empty sequence they raise.
RECURSIVE MinTotal(_)
MinTotal(tariffs) ==
    IF Len(tariffs) = 1 THEN tariffs[1].total
    ELSE LET m == MinTotal(SubSeq(tariffs, 1, Len(tariffs) - 1)) IN
         IF tariffs[Len(tariffs)].total < m THEN tariffs[Len(tariffs)].total ELSE m

RECURSIVE MaxTotal(_)
MaxTotal(tariffs) ==
    IF Len(tariffs) = 1 THEN tariffs[1].total
    ELSE LET m == MaxTotal(SubSeq(tariffs, 1, Len(tariffs) - 1)) IN
         IF tariffs[Len(tariffs)].total > m THEN tariffs[Len(tariffs)].total ELSE m

\* A sensor's native_value: a number, None, or an exception.
Value(v) == [kind |-> "value", val |-> v]
NoValue == [kind |-> "none", val |-> 0]
ValueRaised == [kind |-> "raise", val |-> 0]

TotalOf(found) ==
    IF found.kind = "tariff" THEN Value(found.tariff.total)
    ELSE IF found.kind = "raise" THEN ValueRaised
    ELSE NoValue

NowPriceValue(d, now) ==
    IF d = None THEN NoValue ELSE TotalOf(_find_tariff_for_moment(d, now))

NextHourPriceValue(d, now) ==
    IF d = None THEN NoValue ELSE TotalOf(_find_next_tariff(d, now))

\* MinPriceValue taking the first tariff's total (the list is sorted, by start).
MinPriceValueOfFirst(d) ==
    IF d = None THEN NoValue
    ELSE IF d.tariffs = <<>> THEN ValueRaised
    ELSE Value(d.tariffs[1].total)

MinPriceValue(d) ==
    IF d = None THEN NoValue
    ELSE IF d.tariffs = <<>> THEN ValueRaised
    ELSE Value(MinTotal(d.tariffs))

MaxPriceValue(d) ==
    IF d = None THEN NoValue
    ELSE IF d.tariffs = <<>> THEN ValueRaised
    ELSE Value(MaxTotal(d.tariffs))


---------------------------------------------------------------------------
(* The responses of the endpoint that the refreshes are given *)

SeqsUpTo(S, n) == UNION {[1..k -> S] : k \in 0..n}

TariffObj(start, end, total, groups) ==
    JDict([startDateTime |-> start, endDateTime |-> end,
           totalAmount |-> total, groups |-> groups])
GroupObj(type, amount) == JDict([type |-> JStr(type), amount |-> amount])
ElectricityObj(unit, vat, tariffs) ==
    JDict([unitOfMeasurement |-> unit, vatPercentage |-> vat, tariffs |-> tariffs])
PriceObj(date, electricity) == JDict([date |-> date, electricity |-> electricity])
PayloadObj(prices) == JDict([prices |-> prices])

\* A body with one day, dated day 0, of the given raw tariffs.
OneDay(tariffs_raw) ==
    Fetched(PayloadObj(JList(<<
        PriceObj(JStr(DateIso(0)),
                 ElectricityObj(JStr("kWh"), JNum(21), JList(tariffs_raw))) >>)))

\* The values a startDateTime / endDateTime / totalAmount field is given.
NaiveFields == {JNull, JStr(BadStr)} \cup {JStr(DateTimeIso(Naive(t))) : t \in Times}
TotalFields == {JNull, JStr(BadStr)} \cup {JNum(n) : n \in Amounts}
GroupList ==
    JList(<<GroupObj("MARKET_PRICE", JNum(0)), GroupObj("TAX", JStr(BadStr)),
            GroupObj("MARKET_PRICE", JNum(MaxAmount)), JNull>>)

\* Bodies that differ in their tariffs.  An entry is a non-object, or has any
\* start with any amount as total (its end at hour 1), or a start / end / total
\* that fails a check (the other fields passing).
ParseEntries ==
    {JStr(BadStr)}
    \cup {TariffObj(JStr(DateTimeIso(s)), JStr(DateTimeIso(Naive(1))), JNum(n), JNull) :
            s \in DateTimes, n \in Amounts}
    \cup {TariffObj(s, JStr(DateTimeIso(Naive(1))), JNum(0), JNull) :
            s \in {JNull, JStr(BadStr)}}
    \cup {TariffObj(JStr(DateTimeIso(Naive(1))), e, JNum(0), JNull) :
            e \in NaiveFields}
    \cup {TariffObj(JStr(DateTimeIso(Naive(1))), JStr(DateTimeIso(Naive(1))), tot, JNull) :
            tot \in {JNull, JStr(BadStr)}}
TariffResponses == {OneDay(l) : l \in SeqsUpTo(ParseEntries, MaxTariffs)}

\* Bodies that differ in their days: each entry a non-object, or an object with
\* any date field and any electricity field.
DateFields == {JNull, JStr(BadStr)} \cup {JStr(DateIso(d)) : d \in Days}
DayTariff(total, groups) ==
    TariffObj(JStr(DateTimeIso(Naive(0))), JStr(DateTimeIso(Naive(1))),
              JNum(total), groups)
ElectricityFields ==
    {JNull,
     ElectricityObj(JNull, JStr(BadStr), JList(<<>>)),
     ElectricityObj(JNum(0), JNull, JList(<<DayTariff(0, GroupList)>>))}
    \cup {ElectricityObj(JStr("kWh"), JNum(21), JList(<<DayTariff(n, JNull)>>)) :
            n \in Amounts}
DayEntries ==
    {JStr(BadStr)} \cup
    {PriceObj(d, e) : d \in DateFields, e \in ElectricityFields}
DayResponses ==
    {FetchFailed, Fetched(JNull), Fetched(JList(<<>>)), Fetched(PayloadObj(JNull))}
    \cup {Fetched(PayloadObj(JList(l))) : l \in SeqsUpTo(DayEntries, MaxPrices)}

\* Bodies whose tariffs all pass the checks: every start; the end one hour after
\* the start, with the start's zone or with the other awareness.
Later(dt) == [dt EXCEPT !.t = dt.t + 1]
Flip(dt) == IF dt.aware THEN Naive(dt.t) ELSE Aware(dt.t, 0)
QueryEntries ==
    UNION {{TariffObj(JStr(DateTimeIso(s)), JStr(DateTimeIso(e)), JNum(0), JNull) :
              e \in {Later(s), Flip(Later(s))}} : s \in DateTimes}
QueryResponses == {OneDay(l) : l \in SeqsUpTo(QueryEntries, MaxTariffs)}

\* What successive polls may be given: a failed request, bodies without a usable
\* tariff, and bodies of naive hourly tariffs for the hours 0..to-1.
HourTariff(t, total) ==
    TariffObj(JStr(DateTimeIso(Naive(t))), JStr(DateTimeIso(Naive(t + 1))),
              JNum(total), JNull)
HourlyLists ==
    UNION {{[i \in 1..to |-> HourTariff(i - 1, f[i])] : f \in [1..to -> Amounts]} :
              to \in 1..(MaxTime + 1)}
PollResponses ==
    {FetchFailed, Fetched(JNull), OneDay(<<>>),
     OneDay(<<TariffObj(JStr(DateTimeIso(Naive(0))), JNull, JNum(0), JNull)>>)}
    \cup {OneDay(l) : l \in HourlyLists}

---------------------------------------------------------------------------
(* The coordinator's refresh and the reads of its data *)

Idle == [op |-> "idle", moment |-> Naive(0), out |-> NotFound]
NotRun == [kind |-> "idle", value |-> None, chosen |-> 0]

Init ==
    /\ response = FetchFailed
    /\ refresh_day = 0
    /\ data = None
    /\ last = NotRun
    /\ answer = Idle

\* coordinator.async_refresh(): data becomes what _async_update_data returns;
\* when it raises, the update coordinator logs the error and keeps data.
AsyncRefresh(resp, td) ==
    LET r == _async_update_data(resp, td) IN
    /\ response' = resp
    /\ refresh_day' = td
    /\ last' = r
    /\ data' = IF r.kind = "return" THEN r.value ELSE data
    /\ answer' = Idle

Read(op, moment, out) ==
    /\ answer' = [op |-> op, moment |-> moment, out |-> out]
    /\ UNCHANGED <<response, refresh_day, data, last>>

FindTariffForMoment ==
    /\ data # None
    /\ \E m \in DateTimes :
          Read("find_tariff_for_moment", m, _find_tariff_for_moment(data, m))

FindNextTariff ==
    /\ data # None
    /\ \E m \in DateTimes : Read("find_next_tariff", m, _find_next_tariff(data, m))

\* EssentNowPriceSensor.native_value: now is dt_util.as_local(...), always aware.
NowPrice ==
    \E now \in {dt \in DateTimes : dt.aware} :
        Read("now_price", now, NowPriceValue(data, now))

\* EssentNextHourPriceSensor.native_value: now is datetime.now(), naive.
NextHourPrice ==
    \E now \in {dt \in DateTimes : ~dt.aware} :
        Read("next_hour_price", now, NextHourPriceValue(data, now))

MinPrice == Read("min_price", Naive(0), MinPriceValue(data))
MaxPrice == Read("max_price", Naive(0), MaxPriceValue(data))

\* The coordinator polling for ever, the four sensors read at any time.
Poll == \E resp \in PollResponses : AsyncRefresh(resp, 0)
Next == Poll \/ NowPrice \/ NextHourPrice \/ MinPrice \/ MaxPrice
Spec == Init /\ [][Next]_vars

\* One refresh of each body and day: the parser as a function of its input.
ParseDays ==
    /\ last.kind = "idle"
    /\ \E resp \in DayResponses, td \in Days : AsyncRefresh(resp, td)
ParseTariffLists ==
    /\ last.kind = "idle"
    /\ \E resp \in TariffResponses : AsyncRefresh(resp, 0)
NextParse == ParseDays \/ ParseTariffLists
SpecParse == Init /\ [][NextParse]_vars

\* One refresh, then the two lookups at every moment: the queries as functions
\* of a set the parser produced and a moment.
ParseOnce ==
    /\ last.kind = "idle"
    /\ \E resp \in QueryResponses : AsyncRefresh(resp, 0)
NextQuery == ParseOnce \/ FindTariffForMoment \/ FindNextTariff
SpecQuery == Init /\ [][NextQuery]_vars


---------------------------------------------------------------------------
(* Properties: what they speak of *)

\* The last refresh returned a set / returned None (fetch failed, the schema was
\* violated, or no tariff survived).
ReturnedSet == last.kind = "return" /\ last.value # None
ReturnedNone == last.kind = "return" /\ last.value = None

\* The body's prices list, when it has one, and the raw tariffs of the entry the
\* last refresh chose.
HasPrices ==
    /\ response.ok
    /\ IsDict(response.payload)
    /\ IsList(Get(response.payload, "prices"))
    /\ Get(response.payload, "prices").val # <<>>
Prices == Get(response.payload, "prices").val
ChosenRaw == Get(Get(Prices[last.chosen], "electricity"), "tariffs").val

\* The per-entry checks of the parser, as the specification lists them.
PassesChecks(raw) ==
    /\ IsDict(raw)
    /\ IsStr(Get(raw, "startDateTime")) /\ DateTimeParses(Get(raw, "startDateTime").val)
    /\ IsStr(Get(raw, "endDateTime")) /\ DateTimeParses(Get(raw, "endDateTime").val)
    /\ IsNum(Get(raw, "totalAmount"))
RawTriple(raw) ==
    <<DateTimeFromIso(Get(raw, "startDateTime").val),
      DateTimeFromIso(Get(raw, "endDateTime").val),
      Get(raw, "totalAmount").val>>
Triple(t) == <<t.start, t.end, t.total>>

\* start < end, as Python evaluates it without raising.
StartBeforeEnd(t) == Comparable(t.start, t.end) /\ Before(t.start, t.end)

---------------------------------------------------------------------------
(* C1 *)

\* C1: a refresh whose fetch or parse fails (it returns None) leaves the data the
\* sensors read as it was: the set of the most recent successful refresh.
C1_FailedCycleKeepsData == [][(last'.kind = "return" /\ last'.value = None) => data' = data]_vars

(* C2 *)

\* C2: parse ends in a set or in NoData for every decoded payload, never in an
\* exception; tariffs lists mixing naive and aware starts included.
C2_ParseNeverRaises == last.kind # "raise"

(* C3 *)

\* C3: every tariff of a returned set satisfies start < end and has a numeric
\* total.
C3_StartBeforeEnd ==
    ReturnedSet =>
        \A i \in 1..Len(last.value.tariffs) :
            /\ StartBeforeEnd(last.value.tariffs[i])
            /\ last.value.tariffs[i].total \in Int

\* C3 as amended: every tariff of a returned set has a numeric total and the
\* start and end of an entry that passes the checks, as that entry gives them;
\* so start < end holds for the tariffs whose entry gives an end after its start,
\* and the parser rejects no entry for the order of its start and end.
C3_TariffsAsGiven ==
    ReturnedSet =>
        \A i \in 1..Len(last.value.tariffs) :
            /\ last.value.tariffs[i].total \in Int
            /\ \E j \in 1..Len(ChosenRaw) :
                  /\ PassesChecks(ChosenRaw[j])
                  /\ RawTriple(ChosenRaw[j]) = Triple(last.value.tariffs[i])
                  /\ StartBeforeEnd(last.value.tariffs[i])
                       <=> /\ Comparable(RawTriple(ChosenRaw[j])[1], RawTriple(ChosenRaw[j])[2])
                           /\ Before(RawTriple(ChosenRaw[j])[1], RawTriple(ChosenRaw[j])[2])

\* A returned set holding a tariff that ends before it starts, next to one that
\* starts before it ends.
C3_Witness ==
    /\ ReturnedSet
    /\ \E i, j \in 1..Len(last.value.tariffs) :
          /\ StartBeforeEnd(last.value.tariffs[i])
          /\ Comparable(last.value.tariffs[j].start, last.value.tariffs[j].end)
          /\ Before(last.value.tariffs[j].end, last.value.tariffs[j].start)

(* C4 *)

\* C4: the tariffs of a returned set are sorted ascending by start and are, one
\* for one, the entries of the chosen day that pass the per-entry checks: as many
\* tariffs of each (start, end, total) as there are passing entries giving it.
C4_SortedAndComplete ==
    ReturnedSet =>
        LET ts == last.value.tariffs
            passing == {j \in 1..Len(ChosenRaw) : PassesChecks(ChosenRaw[j])}
        IN /\ \A i, j \in 1..Len(ts) :
                 i < j => /\ Comparable(ts[i].start, ts[j].start)
                          /\ NotAfter(ts[i].start, ts[j].start)
           /\ Len(ts) = Cardinality(passing)
           /\ \A j \in passing :
                 Cardinality({i \in 1..Len(ts) : Triple(ts[i]) = RawTriple(ChosenRaw[j])})
                 = Cardinality({k \in passing :
                                  RawTriple(ChosenRaw[k]) = RawTriple(ChosenRaw[j])})

\* A body whose later entry starts first: the set holds both, in the other order.
C4_Witness ==
    /\ ReturnedSet
    /\ Len(ChosenRaw) = 2 /\ Len(last.value.tariffs) = 2
    /\ Before(last.value.tariffs[1].start, last.value.tariffs[2].start)
    /\ Triple(last.value.tariffs[1]) = RawTriple(ChosenRaw[2])

\* A body whose first entry fails a check: the set holds the other entry alone.
C4_WitnessSkip ==
    /\ ReturnedSet
    /\ Len(ChosenRaw) = 2 /\ Len(last.value.tariffs) = 1
    /\ ~PassesChecks(ChosenRaw[1])

\* A body of two entries of one start and different totals: the set holds both.
C4_WitnessEqualStart ==
    /\ ReturnedSet
    /\ Len(last.value.tariffs) = 2
    /\ last.value.tariffs[1].start = last.value.tariffs[2].start
    /\ last.value.tariffs[1].total # last.value.tariffs[2].total

(* C6 *)

\* The entry the specification's day selection names: the first object whose
\* date is today's ISO string, else the first entry if it is an object, else
\* none (0).
TodayMatches == {i \in 1..Len(Prices) :
                    IsDict(Prices[i]) /\ Get(Prices[i], "date") = JStr(DateIso(refresh_day))}
ExpectedChosen ==
    IF TodayMatches # {} THEN CHOOSE i \in TodayMatches : \A k \in TodayMatches : i <= k
    ELSE IF IsDict(Prices[1]) THEN 1
    ELSE 0

\* C6: parse chooses today's first object entry, else prices[0] when it is an
\* object, else returns NoData; a returned set is made of the chosen entry's
\* tariffs and its day is the entry's parsed date, or today when the date is
\* absent or does not parse.
C6_DaySelection ==
    HasPrices =>
        /\ last.chosen = ExpectedChosen
        /\ ExpectedChosen = 0 => ReturnedNone
        /\ ReturnedSet =>
              LET date == Get(Prices[ExpectedChosen], "date") IN
              /\ last.value.day =
                    IF IsStr(date) /\ DateParses(date.val) THEN DateFromIso(date.val)
                    ELSE refresh_day
              /\ \A i \in 1..Len(last.value.tariffs) :
                    \E j \in 1..Len(ChosenRaw) :
                        /\ PassesChecks(ChosenRaw[j])
                        /\ RawTriple(ChosenRaw[j]) = Triple(last.value.tariffs[i])

\* No entry is dated today, the first entry is chosen and the set takes its day.
C6_Witness ==
    /\ HasPrices /\ ReturnedSet
    /\ Len(Prices) = 2
    /\ TodayMatches = {}
    /\ last.chosen = 1
    /\ last.value.day # refresh_day


---------------------------------------------------------------------------
(* The queries *)

AskedNext == answer.op = "find_next_tariff"
AskedAt == answer.op = "find_tariff_for_moment"

\* The moment as the next-interval query compares it: naive when the set's
\* earliest start is naive, else in its own zone or, if naive, in that start's.
Normalized ==
    IF ~data.tariffs[1].start.aware THEN Naive(answer.moment.t)
    ELSE IF answer.moment.aware THEN answer.moment
    ELSE Aware(answer.moment.t, data.tariffs[1].start.off)

\* start <= moment < end, where Python evaluates both comparisons.
Contains(t, m) ==
    /\ Comparable(t.start, m) /\ NotAfter(t.start, m)
    /\ Comparable(m, t.end) /\ Before(m, t.end)

(* C5 *)

\* C5: the next-interval query returns a tariff for every non-empty set and every
\* moment, and the latest-starting tariff when the moment is after every start.
C5_NextAlwaysAnswers ==
    (AskedNext /\ data.tariffs # <<>>) =>
        /\ answer.out.kind = "tariff"
        /\ (\A i \in 1..Len(data.tariffs) : Before(data.tariffs[i].start, Normalized))
              => \A i \in 1..Len(data.tariffs) :
                    NotAfter(data.tariffs[i].start, answer.out.tariff.start)

(* C7 *)

\* C7: the point-in-time query returns a tariff or no match, never an error,
\* whatever the awareness of the moment and of the tariffs' starts and ends.
C7_PriceAtNeverRaises == AskedAt => answer.out.kind # "raise"

(* C8 *)

\* C8: whenever the data is a set, the minimum and maximum price are values, the
\* least and the greatest total of its tariffs (a set has at least one tariff);
\* when the data is None both are None.
C8_MinMax ==
    /\ data # None => data.tariffs # <<>>
    /\ answer.op = "min_price" =>
          IF data = None THEN answer.out = NoValue
          ELSE /\ answer.out.kind = "value"
               /\ \E i \in 1..Len(data.tariffs) : data.tariffs[i].total = answer.out.val
               /\ \A i \in 1..Len(data.tariffs) : answer.out.val <= data.tariffs[i].total
    /\ answer.op = "max_price" =>
          IF data = None THEN answer.out = NoValue
          ELSE /\ answer.out.kind = "value"
               /\ \E i \in 1..Len(data.tariffs) : data.tariffs[i].total = answer.out.val
               /\ \A i \in 1..Len(data.tariffs) : answer.out.val >= data.tariffs[i].total

\* The minimum read of a set whose totals differ.
C8_Witness ==
    /\ answer.op = "min_price"
    /\ data # None
    /\ \E i \in 1..Len(data.tariffs) : data.tariffs[i].total > answer.out.val

(* C9 *)

\* Two intervals [start, end) share a moment.
Overlap(a, b) ==
    /\ Comparable(a.start, b.end) /\ Before(a.start, b.end)
    /\ Comparable(b.start, a.end) /\ Before(b.start, a.end)

\* C9: the point-in-time query returns the first tariff in stored order with
\* start <= moment < end, and no match when no tariff qualifies; when the set's
\* intervals do not overlap at most one tariff qualifies.
C9_PriceAtFirstMatch ==
    AskedAt =>
        LET ts == data.tariffs
            hits == {i \in 1..Len(ts) : Contains(ts[i], answer.moment)}
        IN /\ IF hits = {} THEN answer.out = NotFound
              ELSE /\ answer.out.kind = "tariff"
                   /\ \E i \in hits : /\ answer.out.tariff = ts[i]
                                      /\ \A k \in hits : i <= k
           /\ (\A i, j \in 1..Len(ts) : i # j => ~Overlap(ts[i], ts[j]))
                 => Cardinality(hits) <= 1

\* C9, for the calls that do not raise: the answer is the first tariff in stored
\* order that holds the moment, and no match when none does.
C9_WhenNoRaise ==
    (AskedAt /\ answer.out.kind # "raise") =>
        LET ts == data.tariffs
            hits == {i \in 1..Len(ts) : Contains(ts[i], answer.moment)}
        IN IF hits = {} THEN answer.out = NotFound
           ELSE /\ answer.out.kind = "tariff"
                /\ \E i \in hits : /\ answer.out.tariff = ts[i]
                                   /\ \A k \in hits : i <= k

(* C10 *)

\* All starts and the moment as compared are naive, or all carry one offset.
OneZone ==
    \A i \in 1..Len(data.tariffs) :
        /\ data.tariffs[i].start.aware = Normalized.aware
        /\ data.tariffs[i].start.off = Normalized.off

\* C10: when all starts and the normalized moment are naive or share one offset,
\* the next-interval query never answers by its second step: if no tariff starts
\* after the moment, none starts on a later date, and the answer is the earliest
\* tariff starting after the moment or else the last tariff.
C10_SecondStepDead ==
    (AskedNext /\ OneZone) =>
        LET ts == data.tariffs
            later == {i \in 1..Len(ts) : Before(Normalized, ts[i].start)}
        IN /\ answer.out.kind = "tariff"
           /\ answer.out.step # 2
           /\ later = {} =>
                 /\ \A i \in 1..Len(ts) : DateOf(ts[i].start) <= DateOf(Normalized)
                 /\ answer.out.tariff = ts[Len(ts)]
           /\ later # {} =>
                 \E i \in later : /\ answer.out.tariff = ts[i]
                                  /\ \A k \in later : i <= k

\* One zone, two tariffs, neither starting after the moment: the last is returned.
C10_Witness ==
    /\ AskedNext /\ OneZone
    /\ Len(data.tariffs) = 2
    /\ data.tariffs[1].start.aware
    /\ \A i \in 1..Len(data.tariffs) : ~Before(Normalized, data.tariffs[i].start)
    /\ answer.out = Found(data.tariffs[2], 3)

===========================================================================
